---------------------------- MODULE Spec2Model ----------------------------
(***************************************************************************)
(* A state-machine model of hotspot's SourceCodeModel                       *)
(* (src/models/sourcecodemodel.cpp): the annotated-source table model that  *)
(* attributes per-instruction self costs to source lines.                   *)
(*                                                                          *)
(* The model state is the object's fields.  Every public operation is one   *)
(* action.  The line-cost aggregator (the type of m_costs) is not part of   *)
(* the two source files; it is modelled from its documented contract.       *)
(*                                                                          *)
(* Reads that the C++ code performs outside the bounds of a container, and  *)
(* calls through a null layout pointer, are undefined behaviour.  They are  *)
(* modelled as a choice between the process aborting and the read yielding  *)
(* an arbitrary value.                                                      *)
(***************************************************************************)
EXTENDS Integers, Sequences, FiniteSets, TLC

(***************************************************************************)
(* Program constants                                                        *)
(***************************************************************************)
\* The initial value of minIndex.
INT_MAX == 2147483647

\* The loop condition of the signature walk is i > minIndex - 6.
WalkWindow == 6

\* SourceCodeColumn, SourceCodeLineNumber, Highlight precede the cost columns.
COLUMN_COUNT == 3

(***************************************************************************)
(* Bounds of the model                                                      *)
(***************************************************************************)
\* Largest number of cost types of a result set.
MaxTypes == 1

\* Largest number of instructions of a disassembly.
MaxDisLines == 2

\* Largest number of lines of a source file; also the largest source line
\* number the debug information of an instruction names.
MaxFileLines == 2

\* How many consecutive reads beyond the end of the line buffer are followed
\* when each of them yields "no parenthesis".
MaxGarbageReads == 2

\* Largest source file of the specification of the signature walk alone.
MaxWalkLines == 7

Symbols == {"A", "B"}

Addrs == 1..MaxDisLines

AllLines == 0..MaxFileLines

\* The lines updateHighlighting is called with.
HighlightLines == {0, 1}

(***************************************************************************)
(* Inputs                                                                   *)
(***************************************************************************)
\* Data::CallerCalleeResults, as far as the model reads it: the number of
\* cost types of selfCosts and the symbols that have an entry.
EmptyResults == [numTypes |-> 0, symbols |-> {}]

ResultsSet ==
    {EmptyResults} \cup {[numTypes |-> n, symbols |-> Symbols] : n \in 1..MaxTypes}

\* The profile behind the result sets: symbol A was sampled at every address,
\* symbol B at the even ones.
HasEntry(symbol, addr) == symbol = "A" \/ addr % 2 = 0

\* The self cost of type t (1-based) sampled at an address of a symbol.
SelfCost(symbol, addr, t) == addr + t + (IF symbol = "B" THEN 1 ELSE 0)

\* m_callerCalleeResults.entry(symbol).offsetMap: address -> per-type self cost.
\* A symbol without an entry has an empty offset map.
OffsetMap(results, symbol) ==
    IF symbol \in results.symbols
    THEN [a \in {x \in Addrs : HasEntry(symbol, x)} |->
             [t \in 1..results.numTypes |-> SelfCost(symbol, a, t)]]
    ELSE [a \in {} |-> <<>>]

\* A source file is the sequence of its lines (the elements of
\* sourceCode.split('\n'), at least one); of a line only "contains '('" is read.
FilesUpTo(n) == UNION {[1..k -> BOOLEAN] : k \in 1..n}

\* The instruction at position i of a disassembly has address i: the addresses
\* of a disassembly are distinct and ascending.
DisassemblyLinesOf(srcLines) ==
    [i \in 1..Len(srcLines) |-> [addr |-> i, sourceCodeLine |-> srcLines[i]]]

Disassemblies ==
    {DisassemblyLinesOf(s) : s \in UNION {[1..k -> AllLines] : k \in 0..MaxDisLines}}

(***************************************************************************)
(* State                                                                    *)
(***************************************************************************)
VARIABLES
    m_callerCalleeResults,  \* the result set of the last setCallerCalleeResults
    m_numTypes,             \* number of cost columns
    m_costs,                \* the line-cost aggregator
    m_validLineNumbers,     \* source lines some instruction maps to
    m_sourceCode,           \* the rows: one text line per displayed source line
    m_lineOffset,           \* source line number of row 0
    m_highlightLine,        \* the highlighted source line
    loadedSymbol,           \* history: the symbol m_costs was last built for
    call,                   \* history: the last operation and how it ended
    trace,                  \* history: what the last setDisassembly past its
                            \*          early returns read and computed
    sourceFile,             \* environment: the lines of the source file on disk
    walk                    \* the signature walk on its own (SpecWalk)

vars == <<m_callerCalleeResults, m_numTypes, m_costs, m_validLineNumbers,
          m_sourceCode, m_lineOffset, m_highlightLine, loadedSymbol, call,
          trace, sourceFile, walk>>

modelVars == <<m_callerCalleeResults, m_numTypes, m_costs, m_validLineNumbers,
               m_sourceCode, m_lineOffset, m_highlightLine>>

\* DisassemblyOutput together with the file system's answer for sourceFileName:
\* "f.cpp" is the source file on disk, the two other names cannot be opened.
\* A file that cannot be opened reads as empty: one empty line.
DisassemblyOutputs ==
    {[sourceFileName |-> "f.cpp", readable |-> TRUE, lines |-> sourceFile,
      symbol |-> s, disassemblyLines |-> d] :
        s \in Symbols, d \in Disassemblies}
    \cup
    {[sourceFileName |-> n, readable |-> FALSE, lines |-> <<FALSE>>,
      symbol |-> s, disassemblyLines |-> d] :
        n \in {"", "missing.cpp"}, s \in Symbols,
        d \in {x \in Disassemblies : Len(x) <= 1}}

(***************************************************************************)
(* The line-cost aggregator (the type of m_costs), from its contract:       *)
(* initialize resets every total and every per-line cost and sets the type  *)
(* count; add adds each per-type value of a record to the line's cost and   *)
(* to the type's total; cost is 0 for a line nothing was added to.  Cost    *)
(* types are numbered from 1 here and from 0 in the code.                   *)
(***************************************************************************)
\* m_costs = {}
EmptyCosts == [numTypes |-> 0, cost |-> <<>>, total |-> <<>>]

InitializeCostsFrom(costs, numTypes) ==
    [numTypes |-> numTypes,
     cost     |-> [t \in 1..numTypes |-> [l \in AllLines |-> 0]],
     total    |-> [t \in 1..numTypes |-> 0]]

Add(costs, lineNumber, costRecord) ==
    [numTypes |-> costs.numTypes,
     cost     |-> [t \in 1..costs.numTypes |->
                     [costs.cost[t] EXCEPT ![lineNumber] = @ + costRecord[t]]],
     total    |-> [t \in 1..costs.numTypes |-> costs.total[t] + costRecord[t]]]

Cost(costs, t, lineNumber) == costs.cost[t][lineNumber]

TotalCost(costs, t) == costs.total[t]

(***************************************************************************)
(* setDisassembly, lines 44-58: the early returns and the reset             *)
(***************************************************************************)
\* Mutant: the two early returns are missing.
OpensFileAlways(d) == TRUE

\* Neither "sourceFileName is empty" nor "the file cannot be opened".
OpensFile(d) == d.sourceFileName # "" /\ d.readable

\* Mutant: m_validLineNumbers.clear() is missing.
ResetKeepsValidLines(validLines, costs, results) ==
    [valid |-> validLines,
     costs |-> InitializeCostsFrom(EmptyCosts, results.numTypes)]

\* Mutant: m_costs is not reset when it already has the result set's types.
ResetKeepsCosts(validLines, costs, results) ==
    [valid |-> {},
     costs |-> IF costs.numTypes = results.numTypes
               THEN costs
               ELSE InitializeCostsFrom(EmptyCosts, results.numTypes)]

\* m_validLineNumbers.clear(); m_costs = {}; m_costs.initializeCostsFrom(...)
ResetForLoad(validLines, costs, results) ==
    [valid |-> {},
     costs |-> InitializeCostsFrom(EmptyCosts, results.numTypes)]

(***************************************************************************)
(* setDisassembly, lines 73-99: the scan of the instructions                *)
(***************************************************************************)
\* The locals and fields the scan updates; added is history: the lines that
\* were passed to m_costs.add.
ScanStart(reset) ==
    [maxIndex |-> 0, minIndex |-> INT_MAX, costs |-> reset.costs,
     valid |-> reset.valid, added |-> {}]

\* The loop body with the sourceCodeLine == 0 test removed.
ScanLineBody(st, line, offsetMap) ==
    LET found == line.addr \in DOMAIN offsetMap
    IN  [maxIndex |-> IF line.sourceCodeLine > st.maxIndex
                      THEN line.sourceCodeLine ELSE st.maxIndex,
         minIndex |-> IF line.sourceCodeLine < st.minIndex
                      THEN line.sourceCodeLine ELSE st.minIndex,
         costs    |-> IF found
                      THEN Add(st.costs, line.sourceCodeLine, offsetMap[line.addr])
                      ELSE st.costs,
         valid    |-> st.valid \cup {line.sourceCodeLine},
         added    |-> IF found THEN st.added \cup {line.sourceCodeLine}
                      ELSE st.added]

\* Mutant: unmapped instructions are not skipped.
ScanLineNoSkip(st, line, offsetMap) == ScanLineBody(st, line, offsetMap)

\* Mutant: the line is marked valid before the unmapped test.
ScanLineMarksFirst(st, line, offsetMap) ==
    IF line.sourceCodeLine = 0
    THEN [st EXCEPT !.valid = @ \cup {line.sourceCodeLine}]
    ELSE ScanLineBody(st, line, offsetMap)

\* One iteration of the loop over disassemblyLines.
ScanLine(st, line, offsetMap) ==
    IF line.sourceCodeLine = 0 THEN st ELSE ScanLineBody(st, line, offsetMap)

RECURSIVE ScanFrom(_, _, _, _)
ScanFrom(disassemblyLines, i, st, offsetMap) ==
    IF i > Len(disassemblyLines)
    THEN st
    ELSE ScanFrom(disassemblyLines, i + 1,
                  ScanLine(st, disassemblyLines[i], offsetMap), offsetMap)

\* Lines 56-99 on a model holding validLines, costs and results.
Scan(validLines, costs, results, d) ==
    ScanFrom(d.disassemblyLines, 1,
             ScanStart(ResetForLoad(validLines, costs, results)),
             OffsetMap(results, d.symbol))

(***************************************************************************)
(* setDisassembly, lines 103-113: the walk towards the function signature   *)
(***************************************************************************)
\* The possible results of lines[idx].contains('(').  An index outside the
\* line buffer is an out-of-bounds read: the process aborts, or the read
\* yields arbitrary text.
ContainsParen(lines, idx) ==
    IF idx >= 0 /\ idx < Len(lines)
    THEN {IF lines[idx + 1] THEN "yes" ELSE "no"}
    ELSE {"abort", "yes", "no"}

WalkEnd(crashed, minIndex, reads) ==
    [crashed |-> crashed, minIndex |-> minIndex, reads |-> reads]

\* The for loop of lines 106-112 from loop variable i on; reads is the set
\* of line-buffer indices read so far, fuel the out-of-bounds reads left to
\* follow.
RECURSIVE WalkLoop(_, _, _, _, _)
WalkLoop(lines, i, minIndex, reads, fuel) ==
    IF ~(i > minIndex - WalkWindow) \/ i < 0
    THEN {WalkEnd(FALSE, minIndex, reads)}
    ELSE LET idx   == minIndex - 1
             inBuf == idx >= 0 /\ idx < Len(lines)
             rs    == reads \cup {idx}
         IN  UNION {
               CASE r = "abort" -> {WalkEnd(TRUE, minIndex, rs)}
                 [] r = "yes"   -> {WalkEnd(FALSE, minIndex, rs)}
                 [] r = "no"    ->
                      IF inBuf
                      THEN WalkLoop(lines, i - 1, minIndex - 1, rs, fuel)
                      ELSE IF fuel > 0
                           THEN WalkLoop(lines, i - 1, minIndex - 1, rs, fuel - 1)
                           ELSE {}
               : r \in ContainsParen(lines, idx)}

\* Lines 105-113: the possible final values of minIndex.
FindSignature(lines, minIndex) ==
    LET idx   == minIndex - 1
        inBuf == idx >= 0 /\ idx < Len(lines)
    IN  UNION {
          CASE r = "abort" -> {WalkEnd(TRUE, minIndex, {idx})}
            [] r = "yes"   -> {WalkEnd(FALSE, minIndex, {idx})}
            [] r = "no"    ->
                 WalkLoop(lines, minIndex - 1, minIndex, {idx},
                          IF inBuf THEN MaxGarbageReads ELSE MaxGarbageReads - 1)
          : r \in ContainsParen(lines, idx)}

(***************************************************************************)
(* setDisassembly, lines 115-118: the rows                                  *)
(***************************************************************************)
\* m_document has one block per line of the file.  findBlockByLineNumber(i)
\* is invalid for i outside 0..numLines-1, its layout() is null, and the call
\* of lineAt on it is undefined: the process aborts, or a garbage text line
\* is pushed.  A row is the document line it shows and whether it is a real
\* text line; looked is the set of document line indices looked up.
RECURSIVE BuildRows(_, _, _, _, _)
BuildRows(numLines, i, maxIndex, rows, looked) ==
    IF ~(i < maxIndex + 1)
    THEN {[crashed |-> FALSE, rows |-> rows, looked |-> looked]}
    ELSE IF i >= 0 /\ i < numLines
         THEN BuildRows(numLines, i + 1, maxIndex,
                        Append(rows, [line |-> i, valid |-> TRUE]),
                        looked \cup {i})
         ELSE {[crashed |-> TRUE, rows |-> rows, looked |-> looked \cup {i}]}
              \cup
              BuildRows(numLines, i + 1, maxIndex,
                        Append(rows, [line |-> i, valid |-> FALSE]),
                        looked \cup {i})

(***************************************************************************)
(* History of the last setDisassembly call                                  *)
(***************************************************************************)
RECURSIVE SumFn(_)
SumFn(f) ==
    IF DOMAIN f = {}
    THEN 0
    ELSE LET x == CHOOSE y \in DOMAIN f : TRUE
         IN  f[x] + SumFn([y \in DOMAIN f \ {x} |-> f[y]])

\* The nonzero sourceCodeLine values of a disassembly.
MappedLines(d) ==
    {d.disassemblyLines[i].sourceCodeLine : i \in DOMAIN d.disassemblyLines} \ {0}

\* The instructions that are mapped and whose address is in the offset map.
ChargedInstructions(results, d) ==
    {i \in DOMAIN d.disassemblyLines :
        /\ d.disassemblyLines[i].sourceCodeLine # 0
        /\ d.disassemblyLines[i].addr \in DOMAIN OffsetMap(results, d.symbol)}

\* The sum of the self costs of type t of those instructions.
ChargedCost(results, d, t) ==
    SumFn([i \in ChargedInstructions(results, d) |->
              OffsetMap(results, d.symbol)[d.disassemblyLines[i].addr][t]])

\* An unmapped instruction whose address is in the offset map.
HasUnmappedSample(results, d) ==
    \E i \in DOMAIN d.disassemblyLines :
        /\ d.disassemblyLines[i].sourceCodeLine = 0
        /\ d.disassemblyLines[i].addr \in DOMAIN OffsetMap(results, d.symbol)

\* The part of the history that the input and the result set determine.
InputFacts(results, d) ==
    [mapped         |-> MappedLines(d),
     expected       |-> [t \in 1..results.numTypes |-> ChargedCost(results, d, t)],
     unmappedSample |-> HasUnmappedSample(results, d),
     fresh          |-> LET f == Scan({}, EmptyCosts, results, d)
                        IN  [valid |-> f.valid, costs |-> f.costs]]

InputFactsTable ==
    [results \in ResultsSet |->
        [symbol \in Symbols |->
            [disassemblyLines \in Disassemblies |->
                InputFacts(results, [symbol |-> symbol,
                                     disassemblyLines |-> disassemblyLines])]]]

NoTrace ==
    [numLines |-> 0, mapped |-> {}, added |-> {}, expected |-> <<>>,
     unmappedSample |-> FALSE, minIndex0 |-> 0, maxIndex |-> 0,
     lineReads |-> {}, docReads |-> {}, fresh |-> [valid |-> {}, costs |-> EmptyCosts],
     replaced |-> FALSE]

\* What a call on input d sees, given the scan's result and the indices read.
TraceOf(d, scanned, lineReads, docReads) ==
    LET facts == InputFactsTable[m_callerCalleeResults][d.symbol][d.disassemblyLines]
    IN  [numLines       |-> Len(d.lines),
         mapped         |-> facts.mapped,
         added          |-> scanned.added,
         expected       |-> facts.expected,
         unmappedSample |-> facts.unmappedSample,
         minIndex0      |-> scanned.minIndex,
         maxIndex       |-> scanned.maxIndex,
         lineReads      |-> lineReads,
         docReads       |-> docReads,
         fresh          |-> facts.fresh,
         replaced       |-> /\ loadedSymbol \notin {"", d.symbol}
                            /\ m_validLineNumbers \ facts.mapped # {}]

(***************************************************************************)
(* The operations                                                           *)
(***************************************************************************)
NoWalk == [minIndex0 |-> 1, minIndex |-> 1, reads |-> {}, done |-> FALSE]

\* The last operation, how it ended, whether it began a model reset and, of
\* a setDisassembly, whether its file name was empty or its file did not open.
Ended(op, outcome, reset) ==
    [op |-> op, outcome |-> outcome, reset |-> reset, noFile |-> FALSE]

EndedOn(d, outcome, reset) ==
    [op |-> "setDisassembly", outcome |-> outcome, reset |-> reset,
     noFile |-> (d.sourceFileName = "" \/ ~d.readable)]

Init ==
    /\ m_callerCalleeResults = EmptyResults
    /\ m_numTypes = 0
    /\ m_costs = EmptyCosts
    /\ m_validLineNumbers = {}
    /\ m_sourceCode = <<>>
    /\ m_lineOffset = 0
    /\ m_highlightLine = 0
    /\ loadedSymbol = ""
    /\ call = Ended("init", "done", FALSE)
    /\ trace = NoTrace
    /\ sourceFile \in FilesUpTo(MaxFileLines)
    /\ walk = NoWalk

\* An aborted process takes no further step.
Alive == call.outcome # "crashed"

Clear ==
    /\ Alive
    /\ m_sourceCode' = <<>>
    /\ call' = Ended("clear", "done", TRUE)
    /\ trace' = NoTrace
    /\ UNCHANGED <<m_callerCalleeResults, m_numTypes, m_costs, m_validLineNumbers,
                   m_lineOffset, m_highlightLine, loadedSymbol, sourceFile, walk>>

SetCallerCalleeResults ==
    /\ Alive
    /\ \E results \in ResultsSet :
         /\ m_callerCalleeResults' = results
         /\ m_numTypes' = results.numTypes
    /\ call' = Ended("setCallerCalleeResults", "done", TRUE)
    /\ trace' = NoTrace
    /\ UNCHANGED <<m_costs, m_validLineNumbers, m_sourceCode, m_lineOffset,
                   m_highlightLine, loadedSymbol, sourceFile, walk>>

UpdateHighlighting ==
    /\ Alive
    /\ \E line \in HighlightLines : m_highlightLine' = line
    /\ call' = Ended("updateHighlighting", "done", FALSE)
    /\ trace' = NoTrace
    /\ UNCHANGED <<m_callerCalleeResults, m_numTypes, m_costs, m_validLineNumbers,
                   m_sourceCode, m_lineOffset, loadedSymbol, sourceFile, walk>>

\* The ways a call past the early returns can end: the walk aborts (the rows
\* are already cleared), the building of the rows aborts (m_lineOffset is not
\* yet assigned), or the call completes.
LoadOutcomes(d, scanned) ==
    UNION {
      IF w.crashed
      THEN {[outcome |-> "crashed", rows |-> <<>>, lineOffset |-> m_lineOffset,
             lineReads |-> w.reads, docReads |-> {}]}
      ELSE {[outcome    |-> IF b.crashed THEN "crashed" ELSE "completed",
             rows       |-> b.rows,
             lineOffset |-> IF b.crashed THEN m_lineOffset ELSE w.minIndex,
             lineReads  |-> w.reads,
             docReads   |-> b.looked] :
               b \in BuildRows(Len(d.lines), w.minIndex - 1, scanned.maxIndex,
                               <<>>, {})}
      : w \in FindSignature(d.lines, scanned.minIndex)}

SetDisassembly ==
    /\ Alive
    /\ \E d \in DisassemblyOutputs :
         IF ~OpensFile(d)
         THEN /\ call' = EndedOn(d, "returned", FALSE)
              /\ trace' = NoTrace
              /\ UNCHANGED <<modelVars, loadedSymbol, sourceFile, walk>>
         ELSE LET scanned == Scan(m_validLineNumbers, m_costs,
                                  m_callerCalleeResults, d)
              IN  \E o \in LoadOutcomes(d, scanned) :
                    /\ m_validLineNumbers' = scanned.valid
                    /\ m_costs' = scanned.costs
                    /\ m_sourceCode' = o.rows
                    /\ m_lineOffset' = o.lineOffset
                    /\ loadedSymbol' = d.symbol
                    /\ call' = EndedOn(d, o.outcome, TRUE)
                    /\ trace' = TraceOf(d, scanned, o.lineReads, o.docReads)
                    /\ UNCHANGED <<m_callerCalleeResults, m_numTypes,
                                   m_highlightLine, sourceFile, walk>>

Next ==
    \/ Clear
    \/ SetCallerCalleeResults
    \/ UpdateHighlighting
    \/ SetDisassembly

Spec == Init /\ [][Next]_vars

(***************************************************************************)
(* The queries                                                              *)
(***************************************************************************)
RowCount == Len(m_sourceCode)

ColumnCount == COLUMN_COUNT + m_numTypes

LineForIndex(row) == row + m_lineOffset

\* The cost type index data() passes to m_costs.cost and m_costs.totalCost
\* for a cost column (0-based, as in the code).
CostTypeIndex(column) == column - COLUMN_COUNT

(***************************************************************************)
(* The signature walk on its own: any file of up to MaxWalkLines lines and  *)
(* any least mapped line in it.                                             *)
(***************************************************************************)
InitWalk ==
    /\ m_callerCalleeResults = EmptyResults
    /\ m_numTypes = 0
    /\ m_costs = EmptyCosts
    /\ m_validLineNumbers = {}
    /\ m_sourceCode = <<>>
    /\ m_lineOffset = 0
    /\ m_highlightLine = 0
    /\ loadedSymbol = ""
    /\ call = Ended("init", "done", FALSE)
    /\ trace = NoTrace
    /\ sourceFile \in FilesUpTo(MaxWalkLines)
    /\ walk \in {[minIndex0 |-> m, minIndex |-> m, reads |-> {}, done |-> FALSE] :
                    m \in 1..Len(sourceFile)}

WalkStep ==
    /\ ~walk.done
    /\ \E w \in FindSignature(sourceFile, walk.minIndex0) :
         /\ ~w.crashed
         /\ walk' = [walk EXCEPT !.minIndex = w.minIndex, !.reads = w.reads,
                                 !.done = TRUE]
    /\ UNCHANGED <<modelVars, loadedSymbol, call, trace, sourceFile>>

NextWalk == WalkStep

SpecWalk == InitWalk /\ [][NextWalk]_vars

(***************************************************************************)
(* Properties                                                               *)
(***************************************************************************)
Completed == call.op = "setDisassembly" /\ call.outcome = "completed"

\* setDisassembly went past its early returns (and completed or aborted).
Loaded == call.op = "setDisassembly" /\ call.outcome \in {"completed", "crashed"}

MaxOf(S) == CHOOSE x \in S : \A y \in S : y <= x

MinOf(S) == CHOOSE x \in S : \A y \in S : x <= y

\* C1: in every reachable state, for every cost type the aggregator's total
\* equals the sum over all source lines of the line's cost; and after a
\* completed setDisassembly the total equals the sum of the self costs of
\* exactly the mapped instructions whose address is in the offset map.
C1_TotalIsSumOfLineCosts ==
    /\ \A t \in 1..m_costs.numTypes :
          TotalCost(m_costs, t) = SumFn([l \in AllLines |-> Cost(m_costs, t, l)])
    /\ Completed =>
          /\ m_costs.numTypes = m_callerCalleeResults.numTypes
          /\ \A t \in 1..m_costs.numTypes :
                TotalCost(m_costs, t) = trace.expected[t]

\* C1 witness: a load that charged some instruction and also saw a mapped
\* instruction without a cost entry.
C1_Witness ==
    /\ Completed
    /\ m_costs.numTypes >= 1
    /\ TotalCost(m_costs, 1) > 0
    /\ trace.mapped \ trace.added # {}

\* C2: after a completed setDisassembly the per-line costs, the totals and
\* the valid-line set equal those of a fresh model, holding the same result
\* set, on which only this load was run.
C2_LoadIsIndependentOfEarlierLoads ==
    Completed =>
        /\ m_validLineNumbers = trace.fresh.valid
        /\ m_costs = trace.fresh.costs

\* C2 witness: the load replaced a load of another symbol that had marked a
\* line valid which this disassembly does not map, and it charged something.
C2_Witness ==
    /\ Completed
    /\ trace.replaced
    /\ m_costs.numTypes >= 1
    /\ TotalCost(m_costs, 1) > 0

\* C3: after a completed setDisassembly the valid-line set is exactly the set
\* of nonzero sourceCodeLine values of the disassembly, with or without cost
\* entries; line 0 is not valid and has no cost, and the scan's minIndex and
\* maxIndex are the least and greatest mapped line.
C3_ValidLinesAreTheMappedLines ==
    Completed =>
        /\ m_validLineNumbers = trace.mapped
        /\ 0 \notin m_validLineNumbers
        /\ \A t \in 1..m_costs.numTypes : Cost(m_costs, t, 0) = 0
        /\ trace.mapped # {} =>
              /\ trace.minIndex0 = MinOf(trace.mapped)
              /\ trace.maxIndex = MaxOf(trace.mapped)

\* C3 witness: a mapped line none of whose instructions has a cost entry,
\* next to an unmapped instruction that has one.
C3_Witness ==
    /\ Completed
    /\ trace.unmappedSample
    /\ trace.mapped \ trace.added # {}
    /\ m_costs.numTypes >= 1

\* C4 as stated: after a completed setDisassembly every line never passed to
\* add has cost 0 for every type and is absent from the valid-line set.
C4_Original ==
    Completed =>
        \A l \in AllLines \ trace.added :
            /\ \A t \in 1..m_costs.numTypes : Cost(m_costs, t, l) = 0
            /\ l \notin m_validLineNumbers

\* C4 amended: after a completed setDisassembly every line never passed to
\* add has cost 0 for every type, and it is absent from the valid-line set
\* when no instruction of the disassembly maps to it.
C4_UnaddedLinesCostNothing ==
    Completed =>
        \A l \in AllLines \ trace.added :
            /\ \A t \in 1..m_costs.numTypes : Cost(m_costs, t, l) = 0
            /\ l \notin trace.mapped => l \notin m_validLineNumbers

\* C4 witness: a line that is valid though never passed to add, and another
\* line that no instruction maps to.
C4_Witness ==
    /\ Completed
    /\ m_costs.numTypes >= 1
    /\ m_validLineNumbers \ trace.added # {}
    /\ (AllLines \ {0}) \ trace.mapped # {}

\* C5 as stated: with m0 the least mapped line, the walk ends at m0 when line
\* m0 contains '('; otherwise it inspects at most 5 lines, ends at the largest
\* line m in m0-5..m0-1 that contains '(' when there is one, and always ends
\* with m0-5 <= minIndex <= m0 and line index minIndex-1 >= 0.
C5_WalkStaysInWindow ==
    walk.done =>
        LET m0    == walk.minIndex0
            m     == walk.minIndex
            cands == {k \in 1..(m0 - 1) : k >= m0 - 5 /\ sourceFile[k]}
        IN  /\ sourceFile[m0] => m = m0
            /\ ~sourceFile[m0] =>
                  /\ Cardinality(walk.reads) <= 5
                  /\ cands # {} => m = MaxOf(cands)
            /\ m0 - 5 <= m
            /\ m <= m0
            /\ m - 1 >= 0

\* C6 as stated: after a completed setDisassembly with a mapped line, the
\* rows are the span minIndex..maxIndex: rowCount is maxIndex - minIndex + 1,
\* row r shows source line minIndex + r, and the last row is line maxIndex.
\* Stated for the calls in which every row is a real text line of the file.
C6_RowsAreTheInclusiveSpan ==
    (/\ Completed
     /\ trace.mapped # {}
     /\ \A r \in 1..RowCount : m_sourceCode[r].valid) =>
        /\ RowCount = trace.maxIndex - m_lineOffset + 1
        /\ \A r \in 0..(RowCount - 1) :
              m_sourceCode[r + 1].line + 1 = LineForIndex(r)
        /\ RowCount > 0 => LineForIndex(RowCount - 1) = trace.maxIndex

\* C7 as stated: a setDisassembly on a readable file and a disassembly without
\* a mapped line completes with minIndex at INT_MAX and maxIndex at 0, so
\* m_lineOffset is INT_MAX, there are no rows, no valid line and every total
\* is 0.
C7_NoMappedLineLeavesSentinel ==
    (Loaded /\ trace.mapped = {}) =>
        /\ call.outcome = "completed"
        /\ trace.minIndex0 = INT_MAX
        /\ trace.maxIndex = 0
        /\ m_lineOffset = INT_MAX
        /\ m_sourceCode = <<>>
        /\ m_validLineNumbers = {}
        /\ \A t \in 1..m_costs.numTypes : TotalCost(m_costs, t) = 0

\* C8: a setDisassembly whose file name is empty or whose file cannot be
\* opened changes no field of the model and begins no model reset.
C8_FailedOpenChangesNothing ==
    [][(call'.op = "setDisassembly" /\ call'.noFile)
       => (UNCHANGED modelVars /\ ~call'.reset)]_vars

\* C8 witness: such a call after a load that left rows and a highlight line.
C8_Witness ==
    /\ call.op = "setDisassembly"
    /\ call.outcome = "returned"
    /\ call.noFile
    /\ m_sourceCode # <<>>
    /\ m_validLineNumbers # {}
    /\ m_highlightLine # 0

\* C9 as stated: when the file has N lines and every mapped line of a
\* disassembly with a mapped line is in 1..N, every line-buffer index read by
\* the walk and every document line index looked up for the rows is in 0..N-1.
C9_ReadsStayInFile ==
    (Loaded /\ trace.mapped # {} /\ trace.mapped \subseteq 1..trace.numLines) =>
        (trace.lineReads \cup trace.docReads) \subseteq 0..(trace.numLines - 1)

\* C10 as stated: in every reachable state, for every cell of a cost column
\* the cost type index data() passes to the aggregator is below the number
\* of cost types the aggregator was initialised with.
C10_CostColumnsAreAggregatorTypes ==
    \A row \in 0..(RowCount - 1) :
        \A column \in COLUMN_COUNT..(ColumnCount - 1) :
            CostTypeIndex(column) < m_costs.numTypes

=============================================================================
